---- MODULE Spec2Model ----
(***************************************************************************)
(* Model of slybot/plugins/scrapely_annotations/processors.py:             *)
(* ItemProcessor (construction, merge, process, dump) and ItemField        *)
(* (process, merge).                                                       *)
(*                                                                         *)
(* Python objects live in heaps so that aliasing is visible:               *)
(*   - ItemField objects are numbered ObjIds; an item's `fields` dict maps *)
(*     a field id to an object number (0 = key absent);                    *)
(*   - every list held in ItemField.value is a list object, numbered by    *)
(*     the ItemField that was constructed with it;                         *)
(*   - ItemProcessor.region_id is a list object per item, whose elements   *)
(*     are scalar region ids (n > 0) or other items' list objects (-j).    *)
(* Items are built from ItemField data only (no nested ItemProcessor       *)
(* among the fields); text values are at most one character long.         *)
(***************************************************************************)
EXTENDS Integers, Sequences, FiniteSets, TLC

\* The longest sequence of merge calls explored.
MaxMerges == 2

\* Three items (A, B and C of a merge scenario), each with up to two fields.
Items == {1, 2, 3}
FieldIds == {1, 2}
NFieldIds == Cardinality(FieldIds)
ObjIds == 1..(Cardinality(Items) * NFieldIds)

\* The ItemField constructed for field id f of item i.
Obj(i, f) == (i - 1) * NFieldIds + f
\* ItemField.id (line 322): the id the field was keyed by at construction.
FieldIdOf(o) == ((o - 1) % NFieldIds) + 1
OwnerOf(o) == ((o - 1) \div NFieldIds) + 1

\* ------------------------------------------------------------- raw values
\* Elements a raw value may hold: text ("" is the empty string), a parsed
\* region handle ("<x>" holds the text x, "<>" is the empty region), a raw
\* mapping (DICT) and a nested item (ITEM).
DICT == "DICT"
ITEM == "ITEM"
AbsentId == "None"

IsRegion(v) == v \in {"<x>", "<>"}
\* Python truthiness of a value: empty text and the empty region (a unicode
\* subclass) are falsy; a non-empty dict and an ItemProcessor are truthy.
Truthy(v) == v \notin {"", "<>"}

Str(s) == [isList |-> FALSE, s |-> s, ref |-> 0]
ListRef(r) == [isList |-> TRUE, s |-> "", ref |-> r]

\* Iterating a text of at most one character.
Chars(s) == IF s = "" THEN <<>> ELSE <<s>>

\* ----------------------------------------------------------- collaborators
\* extractor.extractor(region): the text of a region.
Extractor(v) == CASE v = "<x>" -> "x" [] v = "<>" -> "" [] OTHER -> v
\* extractor.adapt(value, htmlpage): the field type's adaptation.
AdaptHook(v) == CASE v = "x" -> "X" [] v = "y" -> "Y" [] v = "<x>" -> "X" [] OTHER -> v
\* The modifier registry: adaptor name -> callable(value, htmlpage).
Modifiers == {"swap", "blank"}
ApplyModifier(name, v) ==
    IF name = "blank" THEN ""
    ELSE CASE v = "x" -> "y" [] v = "y" -> "x" [] v = "X" -> "Y" [] v = "Y" -> "X"
           [] OTHER -> v

\* Field names of the annotations, and the first character of each.
FieldNames == {"title", "price", "cost", "#dummy", "_type"}
FirstChar(name) ==
    CASE name = "#dummy" -> "#" [] name = "_type" -> "_" [] OTHER -> "a"
StartsWith(name, c) == FirstChar(name) = c

\* Schemas: a plain {} (no attribute_map, no validity predicate, no id), and
\* an item descriptor with an attribute_map, _item_validates, id, description.
SchemaNone ==
    [kind |-> "dict", id |-> "None", description |-> "None",
     hasValidator |-> FALSE, required |-> {}, mapped |-> {}]
SchemaProduct ==
    [kind |-> "descriptor", id |-> "s1", description |-> "Product",
     hasValidator |-> TRUE, required |-> {"price"}, mapped |-> {"price", "cost"}]
Schemas == {SchemaNone, SchemaProduct}

\* schema.attribute_map[name] of SchemaProduct.
Descriptor(name) ==
    IF name = "price"
    THEN [name |-> "price", description |-> "Price",
          hasExtractor |-> TRUE, hasAdapt |-> TRUE]
    ELSE [name |-> name, description |-> "Price",
          hasExtractor |-> FALSE, hasAdapt |-> FALSE]
\* SlybotFieldDescriptor(field, field, _DEFAULT_EXTRACTOR)
DefaultDescriptor(name) ==
    [name |-> name, description |-> name, hasExtractor |-> TRUE, hasAdapt |-> TRUE]

\* schema._item_validates(item): every required attribute is in the item.
ItemValidates(sch, item) == sch.required \subseteq DOMAIN item

VARIABLES
    schema,       \* the schema the items were constructed with
    flip,         \* the interpreter's dict iteration order (fixed per run)
    fmeta,        \* ItemField._meta and what it was constructed with
    fvalue,       \* ItemField.value
    lists,        \* contents of the list objects held as ItemField.value
    fields,       \* ItemProcessor.fields: field id -> ItemField object
    region_id,    \* ItemProcessor.region_id
    annotations,  \* ItemProcessor.annotations
    merges,       \* number of merge calls so far
    lastOp,       \* the last call made
    result        \* what the last call returned or raised

vars == <<schema, flip, fmeta, fvalue, lists, fields, region_id, annotations,
          merges, lastOp, result>>
heap == <<fmeta, fvalue, lists, fields, region_id, annotations>>

\* -------------------------------------------------------------- ItemField
\* ItemField._load_extractors: the descriptor of the field (the schema's, or
\* the default one) and the adaptors its `extractors` name in the registry.
Extractor_of(o) ==
    IF schema.kind = "descriptor" /\ fmeta[o].field \in schema.mapped
    THEN Descriptor(fmeta[o].field)
    ELSE DefaultDescriptor(fmeta[o].field)
Adaptors_of(o) == SelectSeq(fmeta[o].extractors, LAMBDA n: n \in Modifiers)

\* ItemField.name / ItemField.description
UniqueName(o) == Extractor_of(o).name
DisplayName(o) == Extractor_of(o).description

\* arg_to_iter(self.value) given the stored value and the list heap.
ArgToIter(v, ls) == IF v.isList THEN ls[v.ref] ELSE <<v.s>>
RawSeq(o) == ArgToIter(fvalue[o], lists)

\* ItemField._process on the raw values `raw` of field o
ItemField__process(o, raw) ==
    LET ext == Extractor_of(o)
        extracted == [k \in 1..Len(raw) |->
                         IF IsRegion(raw[k]) /\ ext.hasExtractor
                         THEN Extractor(raw[k]) ELSE raw[k]]
        values == SelectSeq(extracted, Truthy)
        adaptable == SelectSeq(values, LAMBDA x: Truthy(x) /\ x \notin {DICT, ITEM})
    IN  IF ext.hasAdapt
        THEN [k \in 1..Len(adaptable) |-> AdaptHook(adaptable[k])]
        ELSE SelectSeq(values, Truthy)

\* The adaptor chain of _adapt: each adaptor maps every value, if any.
RECURSIVE AdaptChain(_, _)
AdaptChain(adaptors, values) ==
    IF adaptors = <<>> THEN values
    ELSE AdaptChain(Tail(adaptors),
                    IF values # <<>>
                    THEN [k \in 1..Len(values) |-> ApplyModifier(Head(adaptors), values[k])]
                    ELSE values)

\* An _adapt without the required check.
AdaptNoRaise(o, values) ==
    [ok |-> TRUE, vals |-> AdaptChain(Adaptors_of(o), values)]

\* ItemField._adapt: ok = FALSE stands for raise MissingRequiredError.
ItemField__adapt(o, values) ==
    LET out == AdaptChain(Adaptors_of(o), values)
    IN  IF fmeta[o].required /\ out = <<>>
        THEN [ok |-> FALSE, vals |-> <<>>]
        ELSE [ok |-> TRUE, vals |-> out]

\* ItemField.process / ItemField.processed
ProcessRaw(o, raw) == ItemField__adapt(o, ItemField__process(o, raw))
ItemField_process(o) == ProcessRaw(o, RawSeq(o))

\* ItemField.merge on the heap h = [fields, fvalue, lists]: self.value.extend(
\* other.value) when self.value is a list, else (AttributeError) self.value is
\* rebound to other.value, the same object.
ItemField_merge(h, self, other) ==
    IF h.fvalue[self].isList
    THEN [h EXCEPT !.lists[h.fvalue[self].ref] =
                     @ \o (IF h.fvalue[other].isList
                           THEN h.lists[h.fvalue[other].ref]
                           ELSE Chars(h.fvalue[other].s))]
    ELSE [h EXCEPT !.fvalue[self] = h.fvalue[other]]

\* ---------------------------------------------------------- ItemProcessor
EmptyRecord == <<>>
Put(rec, k, v) == [n \in (DOMAIN rec) \cup {k} |-> IF n = k THEN v ELSE rec[n]]

\* A value of the dumped record: a list of values, or one scalar (vals[1]).
ListVal(vals) == [isList |-> TRUE, vals |-> vals]
ScalarVal(s) == [isList |-> FALSE, vals |-> <<s>>]
Falsy(v) == IF v.isList THEN v.vals = <<>> ELSE ~Truthy(v.vals[1])

\* self.fields.values()
FieldObjs(i) == {fields[i][f] : f \in FieldIds} \ {0}

\* Dict iteration order: unspecified by the language, fixed for a run.
Before(a, b) == IF flip THEN a > b ELSE a < b
RECURSIVE InOrder(_)
InOrder(S) ==
    IF S = {} THEN <<>>
    ELSE LET first == CHOOSE a \in S : \A b \in S \ {a} : Before(a, b)
         IN  <<first>> \o InOrder(S \ {first})

Skipped(o) == StartsWith(fmeta[o].field, "#")
Passthrough(o) == ~Skipped(o) /\ StartsWith(fmeta[o].field, "_")
Processed(o) == ~Skipped(o) /\ ~Passthrough(o)

\* The loop of _dump (lines 236-257): the (key, value) entries put in `item`,
\* in order. A key is the field name (raw) or the ItemField object itself.
DumpEntry(o) ==
    IF Passthrough(o)
    THEN [o |-> o, raw |-> TRUE,
          val |-> IF fvalue[o].isList THEN ListVal(lists[fvalue[o].ref])
                  ELSE ScalarVal(fvalue[o].s)]
    ELSE [o |-> o, raw |-> FALSE, val |-> ListVal(ItemField_process(o).vals)]
DumpEntries(i) ==
    LET kept == {o \in FieldObjs(i) :
                    \/ Passthrough(o)
                    \/ Processed(o) /\ ItemField_process(o).vals # <<>>}
        ordered == InOrder(kept)
    IN  [k \in 1..Len(ordered) |-> DumpEntry(ordered[k])]

\* meta[field.id].update(dict(value=value, name=name, schema=schema_id, ...))
DumpMeta(i) ==
    LET kept == {o \in FieldObjs(i) :
                    Processed(o) /\ ItemField_process(o).vals # <<>>}
    IN  [f \in {FieldIdOf(o) : o \in kept} |->
            LET o == fields[i][f]
            IN  [value |-> ItemField_process(o).vals, name |-> fmeta[o].field,
                 schema |-> schema.id, required |-> fmeta[o].required]]

\* ItemProcessor._item_with_names: later entries overwrite earlier ones
\* that get the same name; entries with a falsy value are dropped.
EntryName(e, attribute) ==
    IF e.raw THEN fmeta[e.o].field
    ELSE IF attribute = "name" THEN UniqueName(e.o) ELSE DisplayName(e.o)
RECURSIVE ItemWithNames(_, _, _)
ItemWithNames(entries, attribute, acc) ==
    IF entries = <<>> THEN acc
    ELSE LET e == Head(entries)
         IN  ItemWithNames(Tail(entries), attribute,
                           IF Falsy(e.val) THEN acc
                           ELSE Put(acc, EntryName(e, attribute), e.val))
ItemProcessor__item_with_names(entries, attribute) ==
    ItemWithNames(entries, attribute, EmptyRecord)

\* ItemProcessor._validate: raised = "" when it returns `item`.
ValidateNoRaise(entries) ==
    LET item_fields == ItemProcessor__item_with_names(entries, "name")
    IN  IF "_type" \in DOMAIN item_fields
        THEN [raised |-> "", item |-> item_fields]
        ELSE [raised |-> "",
              item |-> ItemProcessor__item_with_names(entries, "description")]
ItemProcessor__validate(entries) ==
    LET item_fields == ItemProcessor__item_with_names(entries, "name")
    IN  IF "_type" \in DOMAIN item_fields
        THEN [raised |-> "", item |-> item_fields]
        ELSE IF schema.hasValidator /\ ~ItemValidates(schema, item_fields)
        THEN [raised |-> "ItemNotValidError", item |-> EmptyRecord]
        ELSE [raised |-> "",
              item |-> ItemProcessor__item_with_names(entries, "description")]

\* ItemProcessor._dump
ItemProcessor__dump(i, include_meta) ==
    IF \E o \in FieldObjs(i) : Processed(o) /\ ~ItemField_process(o).ok
    THEN [raised |-> "MissingRequiredError", rec |-> EmptyRecord,
          hasMeta |-> FALSE, meta |-> <<>>]
    ELSE LET v == ItemProcessor__validate(DumpEntries(i))
             typed == IF "_type" \notin DOMAIN v.item /\ schema.description # "None"
                      THEN Put(v.item, "_type", ScalarVal(schema.description))
                      ELSE v.item
         IN  IF v.raised # ""
             THEN [raised |-> v.raised, rec |-> EmptyRecord,
                   hasMeta |-> FALSE, meta |-> <<>>]
             ELSE [raised |-> "", rec |-> typed, hasMeta |-> include_meta,
                   meta |-> IF include_meta THEN DumpMeta(i) ELSE <<>>]

\* ItemProcessor.dump: both error kinds become the empty record.
ItemProcessor_dump(i, include_meta) ==
    LET d == ItemProcessor__dump(i, include_meta)
    IN  IF d.raised \in {"MissingRequiredError", "ItemNotValidError"}
        THEN [status |-> "ok", exc |-> "", rec |-> EmptyRecord,
              hasMeta |-> FALSE, meta |-> <<>>]
        ELSE [status |-> "ok", exc |-> "", rec |-> d.rec,
              hasMeta |-> d.hasMeta, meta |-> d.meta]

NoResult == [status |-> "none", exc |-> "", rec |-> EmptyRecord,
             hasMeta |-> FALSE, meta |-> <<>>]
Raised(exc) == [status |-> "raised", exc |-> exc, rec |-> EmptyRecord,
                hasMeta |-> FALSE, meta |-> <<>>]

\* ------------------------------------------------------ ItemProcessor.merge
\* Python == on two region_id list objects: the same object, or equal
\* element by element. Lists only hold list objects of later items.
RECURSIVE ListEq(_, _, _)
ListEq(rid, a, b) ==
    \/ a = b
    \/ /\ Len(rid[a]) = Len(rid[b])
       /\ \A k \in 1..Len(rid[a]) :
             LET x == rid[a][k]
                 y == rid[b][k]
             IN  \/ x = y
                 \/ x < 0 /\ y < 0 /\ ListEq(rid, -x, -y)

\* `other.region_id in self.region_id`: a list is never equal to a scalar id.
RegionIn(rid, j, i) ==
    \E k \in 1..Len(rid[i]) : rid[i][k] < 0 /\ ListEq(rid, -(rid[i][k]), j)

\* Lines 210-211: append the other item's region_id (the list object).
MergeRegions(rid, i, j) ==
    IF ~RegionIn(rid, j, i) THEN [rid EXCEPT ![i] = Append(@, -j)] ELSE rid

\* Lines 212-218: the annotations of other that self gets appended.
AnnotationIds(anns) == {anns[k].id : k \in 1..Len(anns)}
MergeAnnotationsByEquality(self_anns, other_anns) ==
    self_anns \o SelectSeq(other_anns,
        LAMBDA a : \A k \in 1..Len(self_anns) : self_anns[k] # a)
MergeAnnotations(self_anns, other_anns) ==
    LET missing_ids == AnnotationIds(other_anns) \ AnnotationIds(self_anns)
    IN  self_anns \o SelectSeq(other_anns,
            LAMBDA a : a.id # AbsentId /\ a.id \in missing_ids)

\* Lines 219-223 for one field id of other, on the heap h.
MergeField(h, i, j, f) ==
    IF h.fields[j][f] = 0 THEN h
    ELSE IF h.fields[i][f] # 0
         THEN ItemField_merge(h, h.fields[i][f], h.fields[j][f])
         ELSE [h EXCEPT !.fields[i][f] = h.fields[j][f]]
RECURSIVE MergeFields(_, _, _, _)
MergeFields(h, i, j, f) ==
    IF f \notin FieldIds THEN h ELSE MergeFields(MergeField(h, i, j, f), i, j, f + 1)

Op(op, a, b, meta, sel, rep) ==
    [op |-> op, a |-> a, b |-> b, meta |-> meta, sel |-> sel, rep |-> rep]

\* self = i, other = j. The absorbed item is one constructed later.
Merge(i, j) ==
    /\ i < j
    /\ merges < MaxMerges
    /\ LET h == MergeFields([fields |-> fields, fvalue |-> fvalue, lists |-> lists],
                            i, j, 1)
       IN  /\ fields' = h.fields
           /\ fvalue' = h.fvalue
           /\ lists' = h.lists
    /\ region_id' = MergeRegions(region_id, i, j)
    /\ annotations' = [annotations EXCEPT ![i] = MergeAnnotations(@, annotations[j])]
    /\ merges' = merges + 1
    /\ lastOp' = Op("merge", i, j, FALSE, "None", 0)
    /\ result' = NoResult
    /\ UNCHANGED <<schema, flip, fmeta>>

\* ------------------------------------------------------- ItemProcessor.dump
Repeats(op, i, include_meta) ==
    IF lastOp.op = op /\ lastOp.a = i /\ lastOp.meta = include_meta THEN 1 ELSE 0

\* A dump that keeps the processed values in the field (self.value = values).
DumpStoring(i, include_meta) ==
    /\ result' = ItemProcessor_dump(i, include_meta)
    /\ lastOp' = Op("dump", i, 0, include_meta, "None", Repeats("dump", i, include_meta))
    /\ fvalue' = [o \in ObjIds |->
                    IF o \in FieldObjs(i) /\ Processed(o) /\ ~fvalue[o].isList
                       /\ ItemField_process(o).vals # <<>>
                    THEN Str(ItemField_process(o).vals[1]) ELSE fvalue[o]]
    /\ UNCHANGED <<schema, flip, fmeta, lists, fields, region_id, annotations, merges>>

Dump(i, include_meta) ==
    /\ result' = ItemProcessor_dump(i, include_meta)
    /\ lastOp' = Op("dump", i, 0, include_meta, "None", Repeats("dump", i, include_meta))
    /\ UNCHANGED <<schema, flip, heap, merges>>

\* ---------------------------------------------------- ItemProcessor.process
\* The call at lines 186-187 passes one argument; the method declared at
\* line 189 takes two (annotations, selector).
PassedArguments == 1
DeclaredParameters == 2

SelectorModes == {"css", "xpath"}
\* selector_annotations and field_annotations of _process_selectors
SelectorQueries(i) ==
    {annotations[i][k].selector :
        k \in {n \in 1..Len(annotations[i]) :
                  annotations[i][n].selection_mode \in SelectorModes}}
    \cup {fmeta[o].selector :
            o \in {p \in FieldObjs(i) : fmeta[p].selection_mode \in SelectorModes}}

\* ItemProcessor._process_css_and_xpath: for an annotation with a query,
\* line 197 reads self.attribute_query, which ItemProcessor does not define.
ItemProcessor__process_css_and_xpath(i, selector) ==
    IF \E q \in SelectorQueries(i) : q # "" THEN "AttributeError" ELSE ""

\* ItemProcessor._process_selectors: what it raises ("" when it returns).
ItemProcessor__process_selectors(i, selector) ==
    IF PassedArguments # DeclaredParameters THEN "TypeError"
    ELSE ItemProcessor__process_css_and_xpath(i, selector)

Selectors == {"None", "hit", "miss"}

\* ItemProcessor.process(selector), include_meta left at its default.
Process(i, selector) ==
    /\ LET exc == IF selector # "None"
                  THEN ItemProcessor__process_selectors(i, selector) ELSE ""
       IN  result' = IF exc # "" THEN Raised(exc)
                     ELSE ItemProcessor_dump(i, FALSE)
    /\ lastOp' = Op("process", i, 0, FALSE, selector, 0)
    /\ UNCHANGED <<schema, flip, heap, merges>>

\* ------------------------------------------------------------ construction
Field(name, required, extractors, isList, s, init) ==
    [present |-> TRUE, field |-> name, required |-> required,
     extractors |-> extractors, selection_mode |-> "auto", selector |-> "",
     isList |-> isList, s |-> s, init |-> init]
NoField ==
    [present |-> FALSE, field |-> "title", required |-> FALSE,
     extractors |-> <<>>, selection_mode |-> "auto", selector |-> "",
     isList |-> FALSE, s |-> "", init |-> <<>>]

TitleRequiredEmpty == Field("title", TRUE, <<>>, FALSE, "", <<>>)
HashRequiredEmpty == Field("#dummy", TRUE, <<>>, FALSE, "", <<>>)
PriceList == Field("price", FALSE, <<>>, TRUE, "", <<"x", DICT>>)
TitleX == Field("title", FALSE, <<>>, FALSE, "x", <<>>)
TypeX == Field("_type", TRUE, <<>>, FALSE, "x", <<>>)
CostList == Field("cost", FALSE, <<"swap", "unknown">>, TRUE, "", <<ITEM, "y">>)
TitleListY == Field("title", FALSE, <<>>, TRUE, "", <<"y">>)
PriceRegions == Field("price", TRUE, <<"blank">>, TRUE, "", <<"<x>", "">>)
TitleY == Field("title", FALSE, <<>>, FALSE, "y", <<>>)
TitleRequiredDict == Field("title", TRUE, <<>>, TRUE, "", <<DICT, "<>">>)

\* The data an item may be constructed with, per item and field id.
Menu(i, f) ==
    CASE i = 1 /\ f = 1 -> {NoField, TitleRequiredEmpty, HashRequiredEmpty, PriceList}
      [] i = 1 /\ f = 2 -> {NoField, TitleX, TypeX, CostList}
      [] i = 2 /\ f = 1 -> {TitleListY, PriceRegions}
      [] i = 3 /\ f = 1 -> {TitleY, TitleRequiredDict}
      [] OTHER -> {NoField}

Ann(id, tag, mode, selector) ==
    [id |-> id, tag |-> tag, selection_mode |-> mode, selector |-> selector]
AnnMenu(i) ==
    CASE i = 1 -> {<<Ann("a1", "p", "auto", "")>>,
                   <<Ann("a1", "p", "css", ".price"), Ann(AbsentId, "q", "auto", "")>>}
      [] i = 2 -> {<<Ann("a1", "r", "auto", "")>>,
                   <<Ann("a1", "r", "auto", ""), Ann("a2", "p", "auto", ""),
                     Ann(AbsentId, "s", "xpath", "")>>,
                   <<Ann("a2", "p", "auto", ""), Ann("a2", "t", "auto", "")>>}
      [] OTHER -> {<<Ann("a3", "p", "auto", "")>>, <<Ann(AbsentId, "q", "auto", "")>>}

\* ItemProcessor.__init__ / _process_fields / ItemField.__init__ for the
\* chosen templates tm, region ids rg and annotation lists an.
Constructed(tm, rg, an) ==
    /\ fmeta = tm
    /\ fvalue = [o \in ObjIds |-> IF tm[o].isList THEN ListRef(o) ELSE Str(tm[o].s)]
    /\ lists = [o \in ObjIds |-> tm[o].init]
    /\ fields = [i \in Items |-> [f \in FieldIds |->
                    IF tm[Obj(i, f)].present THEN Obj(i, f) ELSE 0]]
    /\ region_id = [i \in Items |-> <<rg[i]>>]
    /\ annotations = an
    /\ merges = 0
    /\ lastOp = Op("init", 0, 0, FALSE, "None", 0)
    /\ result = NoResult

Templates == {tm \in [ObjIds -> UNION {Menu(i, f) : i \in Items, f \in FieldIds}] :
                 \A o \in ObjIds : tm[o] \in Menu(OwnerOf(o), FieldIdOf(o))}

\* Items with varied field data.
InitFields ==
    /\ schema \in Schemas
    /\ flip \in BOOLEAN
    /\ \E tm \in Templates :
          Constructed(tm, [i \in Items |-> i],
                      [i \in Items |-> <<Ann("a1", "p", "css", ".price")>>])

\* Items with varied region ids and annotations.
InitRegions ==
    /\ schema = SchemaNone
    /\ flip = FALSE
    /\ \E rg \in {r \in [Items -> {1, 2}] : r[1] = 1} :
       \E an \in {a \in [Items -> UNION {AnnMenu(i) : i \in Items}] :
                     \A i \in Items : a[i] \in AnnMenu(i)} :
          Constructed([o \in ObjIds |-> IF o = Obj(1, 1) THEN TitleX ELSE NoField],
                      rg, an)

Init == InitFields \/ InitRegions

Next ==
    \/ \E i, j \in Items : Merge(i, j)
    \/ \E i \in Items, include_meta \in BOOLEAN : Dump(i, include_meta)
    \/ \E i \in Items, selector \in Selectors : Process(i, selector)

Spec == Init /\ [][Next]_vars

\* ================================================================ claims
\* The values a field hands to the required check of _adapt.
ChainOut(o) == AdaptChain(Adaptors_of(o), ItemField__process(o, RawSeq(o)))
RequiredEmpty(o) == fmeta[o].required /\ ChainOut(o) = <<>>
Dumped == lastOp.op = "dump"
ReturnedEmpty == result.status = "ok" /\ result.rec = EmptyRecord

\* C1 as stated: after dump(), if any field of the item is marked required
\* and its processed value sequence is empty, dump() returned {}.
C1_RequiredEmptyDumpsEmpty ==
    Dumped =>
        ((\E o \in FieldObjs(lastOp.a) : RequiredEmpty(o)) => ReturnedEmpty)

\* C1 amended: after dump(), if a field of the item whose name starts with
\* neither '#' nor '_' is marked required and its processed value sequence
\* is empty, dump() returned {} and raised nothing.
C1_ProcessedRequiredEmptyDumpsEmpty ==
    Dumped =>
        ((\E o \in FieldObjs(lastOp.a) : Processed(o) /\ RequiredEmpty(o))
            => ReturnedEmpty)

\* A merged item with a failing required field next to a field with values.
C1_Witness ==
    /\ Dumped /\ merges > 0 /\ ReturnedEmpty
    /\ \E o, p \in FieldObjs(lastOp.a) :
          /\ Processed(o) /\ RequiredEmpty(o)
          /\ Processed(p) /\ ChainOut(p) # <<>>

\* The unique-named record _validate hands to the schema's predicate.
Assembles(i) == \A o \in FieldObjs(i) : Processed(o) => ~RequiredEmpty(o)
UniqueRecord(i) == ItemProcessor__item_with_names(DumpEntries(i), "name")
PreTyped(i) == "_type" \in DOMAIN UniqueRecord(i)
Rejected(i) ==
    /\ schema.hasValidator /\ Assembles(i) /\ ~PreTyped(i)
    /\ ~ItemValidates(schema, UniqueRecord(i))

\* C2: when the schema's validity predicate rejects the assembled
\* unique-named record and the record is not pre-typed, dump() returns {}
\* and raises nothing; dump() never returns a non-empty, non-pre-typed
\* record that the predicate rejects.
C2_RejectedDumpsEmpty ==
    Dumped =>
        /\ Rejected(lastOp.a) => ReturnedEmpty
        /\ result.status = "ok"
        /\ (schema.hasValidator /\ result.rec # EmptyRecord /\ ~PreTyped(lastOp.a))
              => ItemValidates(schema, UniqueRecord(lastOp.a))

\* A dump of an item with values that the predicate rejects.
C2_Witness ==
    /\ Dumped /\ Rejected(lastOp.a) /\ ReturnedEmpty
    /\ UniqueRecord(lastOp.a) # EmptyRecord

\* C4: a dump() changes no item's fields, raw values, region ids or
\* annotations, and a dump() that directly follows a dump() of the same
\* item returns the same record.
C4_DumpIdempotent ==
    [][/\ lastOp'.op = "dump" => heap' = heap
       /\ (lastOp.op = "dump" /\ lastOp'.op = "dump" /\ lastOp'.a = lastOp.a
           /\ lastOp'.meta = lastOp.meta) => result' = result]_vars

\* A second dump in a row of a merged item, returning a record.
C4_Witness ==
    /\ Dumped /\ lastOp.rep = 1 /\ merges > 0
    /\ result.rec # EmptyRecord
    /\ \E o \in FieldObjs(lastOp.a) : Processed(o) /\ ChainOut(o) # <<>>

\* A merge step of other = j into self = i.
MergeStep(i, j) ==
    merges' = merges + 1 /\ lastOp'.a = i /\ lastOp'.b = j

\* A raw value that holds a non-empty text.
HasText(raw) ==
    \E k \in 1..Len(raw) : Truthy(raw[k]) /\ raw[k] \notin {DICT, ITEM}
\* No other field of item i fails and the schema accepts the record.
NothingElseFails(i, o) ==
    /\ \A q \in FieldObjs(i) \ {o} : Processed(q) => ~RequiredEmpty(q)
    /\ ~(schema.hasValidator /\ ~PreTyped(i)
         /\ ~ItemValidates(schema, UniqueRecord(i)))
\* The key a field's values are returned under.
FieldKey(i, o) == IF PreTyped(i) THEN UniqueName(o) ELSE DisplayName(o)

\* C3: if item A owns a required field whose raw value is "", A.dump()
\* returns {}; after A.merge(B), where B holds a non-empty text for the same
\* field id and nothing else fails, A.dump() returns a non-empty record that
\* includes that field with the value B contributed.
C3_MergeRecoversRequiredField ==
    [][\A i, j \in Items, f \in FieldIds :
          (/\ MergeStep(i, j)
           /\ fields[i][f] # 0 /\ fields[j][f] # 0
           /\ Processed(fields[i][f]) /\ fmeta[fields[i][f]].required
           /\ fvalue[fields[i][f]] = Str("")
           /\ HasText(RawSeq(fields[j][f])))
          => LET o == fields[i][f]
                 contributed == ProcessRaw(o, RawSeq(fields[j][f])).vals
             IN  /\ ItemProcessor_dump(i, FALSE).rec = EmptyRecord
                 /\ (NothingElseFails(i, o))'
                       => /\ (ItemProcessor_dump(i, FALSE).rec # EmptyRecord)'
                          /\ (FieldKey(i, o) \in DOMAIN ItemProcessor_dump(i, FALSE).rec)'
                          /\ (ItemProcessor_dump(i, FALSE).rec[FieldKey(i, o)].vals)'
                                = contributed]_vars

\* The scalar region ids in a region_id list, nested lists included.
RECURSIVE Flatten(_, _)
Flatten(rid, elems) ==
    IF elems = <<>> THEN <<>>
    ELSE (IF Head(elems) > 0 THEN <<Head(elems)>> ELSE Flatten(rid, rid[-Head(elems)]))
         \o Flatten(rid, Tail(elems))
NoDuplicates(s) == \A a, b \in 1..Len(s) : a # b => s[a] # s[b]
RegionIds(rid, i) ==
    LET flat == Flatten(rid, rid[i]) IN {flat[k] : k \in 1..Len(flat)}

\* C5: after any sequence of merges no region identifier occurs twice in an
\* item's region ids, and merging an item whose region ids self already has
\* adds nothing.
C5_NoDuplicateRegionIds ==
    [][\A i, j \in Items :
          MergeStep(i, j)
          => /\ NoDuplicates(Flatten(region_id', region_id'[i]))
             /\ RegionIds(region_id, j) \subseteq RegionIds(region_id, i)
                   => region_id'[i] = region_id[i]]_vars

\* The annotations a merge appended to self = i.
Appended(i) == SubSeq(annotations'[i], Len(annotations[i]) + 1, Len(annotations'[i]))
Occurrences(anns, a) == Cardinality({k \in 1..Len(anns) : anns[k] = a})
SelfIds(i) == AnnotationIds(annotations[i])

\* C6 as stated: merge(other) copies into self every annotation of other
\* whose id is not among self's annotation ids, one without an id included,
\* and copies no annotation whose id self already has.
C6_CopiesEveryMissingId ==
    [][\A i, j \in Items :
          MergeStep(i, j)
          => /\ SubSeq(annotations'[i], 1, Len(annotations[i])) = annotations[i]
             /\ \A k \in 1..Len(annotations[j]) :
                   LET a == annotations[j][k]
                   IN  IF a.id \notin SelfIds(i)
                       THEN Occurrences(Appended(i), a) = Occurrences(annotations[j], a)
                       ELSE Occurrences(Appended(i), a) = 0]_vars

\* C6 amended: merge(other) copies into self every annotation of other that
\* has an id and whose id is not among self's annotation ids; it copies no
\* annotation whose id self already has and none whose id is absent;
\* identity is by id only.
C6_CopiesEveryMissingPresentId ==
    [][\A i, j \in Items :
          MergeStep(i, j)
          => /\ SubSeq(annotations'[i], 1, Len(annotations[i])) = annotations[i]
             /\ Len(Appended(i)) <= Len(annotations[j])
             /\ \A k \in 1..Len(annotations[j]) :
                   LET a == annotations[j][k]
                   IN  IF a.id # AbsentId /\ a.id \notin SelfIds(i)
                       THEN Occurrences(Appended(i), a) = Occurrences(annotations[j], a)
                       ELSE Occurrences(Appended(i), a) = 0]_vars

\* After A.merge(B): B held an annotation with a new id (copied), one whose
\* id A already had with other content (not copied), one without an id
\* (not copied).
C6_Witness ==
    /\ lastOp.op = "merge" /\ merges = 1
    /\ LET self == annotations[lastOp.a]
           other == annotations[lastOp.b]
       IN  /\ \E k \in 1..Len(other) :
                 other[k].id = AbsentId /\ Occurrences(self, other[k]) = 0
           /\ \E k \in 1..Len(other) :
                 other[k].id # AbsentId /\ Occurrences(self, other[k]) = 1
                 /\ self[1].id # other[k].id
           /\ \E k \in 1..Len(other) :
                 other[k].id = self[1].id /\ Occurrences(self, other[k]) = 0

\* C7: process(selector) with a query-capable selector, on an item with a
\* css or xpath annotation that has a selector string, completes and
\* returns a record.
C7_ProcessSelectorReturnsRecord ==
    (/\ lastOp.op = "process" /\ lastOp.sel # "None"
     /\ \E q \in SelectorQueries(lastOp.a) : q # "")
    => result.status = "ok"

\* C8: when a field's extractor has an adaptation hook, every nested item
\* and raw mapping among its raw values is still present in what _process
\* hands to the adaptor chain.
C8_NestedValuesPassThrough ==
    Dumped =>
        \A o \in FieldObjs(lastOp.a) :
            (Processed(o) /\ Extractor_of(o).hasAdapt)
            => \A k \in 1..Len(RawSeq(o)) :
                  RawSeq(o)[k] \in {DICT, ITEM}
                  => \E m \in 1..Len(ItemField__process(o, RawSeq(o))) :
                        ItemField__process(o, RawSeq(o))[m] = RawSeq(o)[k]

\* C9: when two or more fields of an item with distinct ids resolve to the
\* same display name and each has processed values, the dumped record holds
\* the processed values of all of them under that name.
C9_ValuesAccumulatePerName ==
    (Dumped /\ result.rec # EmptyRecord /\ ~PreTyped(lastOp.a))
    => \A o, p \in FieldObjs(lastOp.a) :
          (/\ o # p /\ FieldIdOf(o) # FieldIdOf(p)
           /\ Processed(o) /\ Processed(p)
           /\ DisplayName(o) = DisplayName(p)
           /\ ChainOut(o) # <<>> /\ ChainOut(p) # <<>>)
          => /\ DisplayName(o) \in DOMAIN result.rec
             /\ \A k \in 1..Len(ChainOut(o)) :
                   \E m \in 1..Len(result.rec[DisplayName(o)].vals) :
                      result.rec[DisplayName(o)].vals[m] = ChainOut(o)[k]

\* What an item holds: its field ids, each field's raw value, its region
\* ids and its annotations.
ItemState(i) ==
    [fields |-> {f \in FieldIds : fields[i][f] # 0},
     raw |-> [f \in FieldIds |->
                IF fields[i][f] = 0 THEN <<>>
                ELSE <<fvalue[fields[i][f]].isList, RawSeq(fields[i][f])>>],
     region_id |-> Flatten(region_id, region_id[i]),
     annotations |-> annotations[i]]

\* C10: a merge into A changes the fields, raw values, region ids and
\* annotations of no other item, whether that item was absorbed before
\* or not.
C10_MergeLeavesOthersAlone ==
    [][\A i, j \in Items :
          MergeStep(i, j) => \A k \in Items \ {i} : ItemState(k)' = ItemState(k)]_vars

====
